---- MODULE Spec2Model ----
(***************************************************************************)
(* Model of src/src/essence-sse.ts: EssenceSSEServer (the Emitter) writing *)
(* two-chunk frames into the writable side of a TransformStream, and       *)
(* EssenceSSEClient (the Receiver) whose EventSource listener parses each  *)
(* message body and calls the user callback.                               *)
(*                                                                         *)
(* JavaScript runs every handler to completion, so each method, the abort  *)
(* callback and the event listener are one atomic action each.             *)
(*                                                                         *)
(* Platform primitives are modelled at their documented boundary:          *)
(*  - WritableStreamDefaultWriter: write() and close() on a stream that is *)
(*    closing or closed return a rejected promise and accept nothing; they *)
(*    never throw synchronously.                                           *)
(*  - EventSource: dispatches one event per frame, typed by the frame's    *)
(*    tag, carrying the frame's body as event.data; an exception thrown by *)
(*    a listener is reported and the listener stays registered.            *)
(* The duplex stays writable until closeSSE closes it: a transport that    *)
(* cancels the readable side on disconnect is outside the model.           *)
(***************************************************************************)
EXTENDS Integers, Sequences, FiniteSets, TLC

\* ---------------------------------------------------------------- bounds
MaxPush == 2
MaxClose == 2
MaxMalformed == 1
\* calls per Emitter when two Emitters are driven side by side
MaxPairPush == 1
MaxPairClose == 1

\* ------------------------------------------------------------- universes
Emitters == {1, 2}
Tags == {"A", "B"}
\* values handed to pushData: two plain ones, one that JSON cannot carry
\* (NaN is serialized as null) and one that JSON.stringify refuses (a
\* cyclic object makes it throw)
Values == {"v1", "v2", "NaN", "cyclic"}
\* the values pushed when two Emitters are driven side by side: one that is
\* written and one that makes pushData throw
PairValues == {"v1", "cyclic"}

VARIABLES
    eventTag,          \* [Emitters -> Tags]         this.eventTag
    open,              \* [Emitters -> BOOLEAN]      this.open
    response,          \* [Emitters -> BOOLEAN]      a NextResponse wraps the readable side
    writerState,       \* [Emitters -> {"writable","closed"}]  RESPONSE_STREAM_WRITER
    wire,              \* [Emitters -> Seq(chunk)]   chunks accepted by the writer
    aborted,           \* [Emitters -> BOOLEAN]      request.signal has fired
    closeSSECalls,     \* [Emitters -> Nat]          invocations of closeSSE
    writerCloseCalls,  \* [Emitters -> Nat]          invocations of RESPONSE_STREAM_WRITER.close()
    writeCalls,        \* [Emitters -> Nat]          invocations of RESPONSE_STREAM_WRITER.write()
    rejections,        \* [Emitters -> Nat]          rejected promises returned by the writer
    pushCalls,         \* [Emitters -> Nat]          invocations of pushData
    pushed,            \* [Emitters -> Seq(Values)]  arguments of pushData before the first closeSSE
    earlyPush,         \* [Emitters -> BOOLEAN]      pushData has run while open was false
    thrown,            \* [Emitters -> Nat]          exceptions an Emitter method let escape
    clientTag,         \* EssenceSSEClient.eventTag
    rd,                \* index in wire[Served] of the next chunk the EventSource reads
    sourceClosed,      \* source.close() has been called
    clientLog,         \* what the listener did, in order
    nextRef,           \* identity of the next object JSON.parse allocates
    malformed          \* malformed bodies delivered so far

emitterVars == <<eventTag, open, response, writerState, wire, aborted,
                 closeSSECalls, writerCloseCalls, writeCalls, rejections,
                 pushCalls, pushed, earlyPush, thrown>>
clientVars == <<clientTag, rd, sourceClosed, clientLog, nextRef, malformed>>
vars == <<emitterVars, clientVars>>

\* the Emitter whose response the Receiver's url points at
Served == 1

\* ------------------------------------------------------- JSON and chunks
\* const TERMINATION_PAYLOAD = { payload: null, status: "terminate" }
\* ref is the identity of the module-level object
TERMINATION_PAYLOAD == [ref |-> 0, payload |-> "null", status |-> "terminate"]

\* { payload: data, status: "running" }, an object literal (identity unused)
DataEnvelope(data) == [ref |-> -1, payload |-> data, status |-> "running"]

\* JSON.stringify throws a TypeError on a cyclic value
StringifyThrows(obj) == obj.payload = "cyclic"

\* JSON.stringify: NaN is written as null; identity is not part of the text
JSONStringify(obj) ==
    [valid |-> TRUE,
     payload |-> IF obj.payload = "NaN" THEN "null" ELSE obj.payload,
     status |-> obj.status]

\* a body that is not JSON
MalformedText == [valid |-> FALSE, payload |-> "", status |-> ""]

\* JSON.parse throws a SyntaxError on text that is not JSON
ParseThrows(text) == ~text.valid

\* JSON.parse: always a newly allocated object
JSONParse(text, ref) == [ref |-> ref, payload |-> text.payload, status |-> text.status]

\* ENCODER.encode(`event: ${this.eventTag}`)
EventChunk(tag) ==
    [kind |-> "event", tag |-> tag, valid |-> TRUE, payload |-> "", status |-> ""]

\* ENCODER.encode(payload)
BodyChunk(text) ==
    [kind |-> "body", tag |-> "", valid |-> text.valid,
     payload |-> text.payload, status |-> text.status]

\* the text carried by a body chunk
BodyText(chunk) == [valid |-> chunk.valid, payload |-> chunk.payload, status |-> chunk.status]

\* --------------------------------------------------------------- Emitter
\* WritableStreamDefaultWriter.write/close: accepted only while the stream is
\* writable and no close has been requested
WriterAcceptsAlways(state) == TRUE

WriterAccepts(state) == state = "writable"

\* the wire after the two write() calls of one frame
WriteFrameBodyFirst(e, text) ==
    IF WriterAccepts(writerState[e])
    THEN wire[e] \o <<BodyChunk(text), EventChunk(eventTag[e])>>
    ELSE wire[e]

WriteFrame(e, text) ==
    IF WriterAccepts(writerState[e])
    THEN wire[e] \o <<EventChunk(eventTag[e]), BodyChunk(text)>>
    ELSE wire[e]

\* rejected promises after n calls on the writer in its current state
Rejected(e, n) == IF WriterAccepts(writerState[e]) THEN 0 ELSE n

Init ==
    /\ eventTag \in [Emitters -> Tags]
    /\ open = [e \in Emitters |-> FALSE]
    /\ response = [e \in Emitters |-> FALSE]
    /\ writerState = [e \in Emitters |-> "writable"]
    /\ wire = [e \in Emitters |-> <<>>]
    /\ aborted = [e \in Emitters |-> FALSE]
    /\ closeSSECalls = [e \in Emitters |-> 0]
    /\ writerCloseCalls = [e \in Emitters |-> 0]
    /\ writeCalls = [e \in Emitters |-> 0]
    /\ rejections = [e \in Emitters |-> 0]
    /\ pushCalls = [e \in Emitters |-> 0]
    /\ pushed = [e \in Emitters |-> <<>>]
    /\ earlyPush = [e \in Emitters |-> FALSE]
    /\ thrown = [e \in Emitters |-> 0]
    /\ clientTag \in Tags
    /\ rd = 1
    /\ sourceClosed = FALSE
    /\ clientLog = <<>>
    /\ nextRef = 1
    /\ malformed = 0

\* this.open = true on the instance the method is called on
openSSEStaticFlag(e) ==
    /\ open' = [o \in Emitters |-> TRUE]
    /\ response' = [response EXCEPT ![e] = TRUE]
    /\ UNCHANGED <<eventTag, writerState, wire, aborted, closeSSECalls,
                   writerCloseCalls, writeCalls, rejections, pushCalls, pushed,
                   earlyPush, thrown>>
    /\ UNCHANGED clientVars

openSSE(e) ==
    /\ open' = [open EXCEPT ![e] = TRUE]
    /\ response' = [response EXCEPT ![e] = TRUE]
    /\ UNCHANGED <<eventTag, writerState, wire, aborted, closeSSECalls,
                   writerCloseCalls, writeCalls, rejections, pushCalls, pushed,
                   earlyPush, thrown>>
    /\ UNCHANGED clientVars

\* the body of closeSSE, shared by the method call and the abort callback
closeSSEBodyNoFrame(e) ==
    /\ closeSSECalls' = [closeSSECalls EXCEPT ![e] = @ + 1]
    /\ open' = [open EXCEPT ![e] = FALSE]
    /\ writerCloseCalls' = [writerCloseCalls EXCEPT ![e] = @ + 1]
    /\ writerState' = [writerState EXCEPT ![e] = "closed"]
    /\ rejections' = [rejections EXCEPT ![e] = @ + Rejected(e, 1)]
    /\ UNCHANGED <<eventTag, response, wire, writeCalls, pushCalls, pushed,
                   earlyPush, thrown>>
    /\ UNCHANGED clientVars

closeSSEBody(e) ==
    /\ closeSSECalls' = [closeSSECalls EXCEPT ![e] = @ + 1]
    /\ open' = [open EXCEPT ![e] = FALSE]
    /\ wire' = [wire EXCEPT ![e] = WriteFrame(e, JSONStringify(TERMINATION_PAYLOAD))]
    /\ writeCalls' = [writeCalls EXCEPT ![e] = @ + 2]
    /\ writerCloseCalls' = [writerCloseCalls EXCEPT ![e] = @ + 1]
    /\ writerState' = [writerState EXCEPT ![e] = "closed"]
    /\ rejections' = [rejections EXCEPT ![e] = @ + Rejected(e, 3)]
    /\ UNCHANGED <<eventTag, response, pushCalls, pushed, earlyPush, thrown>>
    /\ UNCHANGED clientVars

closeSSE(e) ==
    /\ closeSSECalls[e] < MaxClose
    /\ closeSSEBody(e)
    /\ UNCHANGED aborted

\* request.signal.onabort; an AbortSignal fires once
onabortLogOnly(e) ==
    /\ ~aborted[e]
    /\ aborted' = [aborted EXCEPT ![e] = TRUE]
    /\ UNCHANGED <<eventTag, open, response, writerState, wire, closeSSECalls,
                   writerCloseCalls, writeCalls, rejections, pushCalls, pushed,
                   earlyPush, thrown>>
    /\ UNCHANGED clientVars

onabort(e) ==
    /\ ~aborted[e]
    /\ aborted' = [aborted EXCEPT ![e] = TRUE]
    /\ closeSSEBody(e)

pushData(e, data) ==
    /\ pushCalls[e] < MaxPush
    /\ pushCalls' = [pushCalls EXCEPT ![e] = @ + 1]
    /\ pushed' = [pushed EXCEPT ![e] = IF closeSSECalls[e] = 0 THEN Append(@, data) ELSE @]
    /\ earlyPush' = [earlyPush EXCEPT ![e] = @ \/ ~open[e]]
    /\ IF StringifyThrows(DataEnvelope(data))
       THEN /\ thrown' = [thrown EXCEPT ![e] = @ + 1]
            /\ UNCHANGED <<wire, writeCalls, rejections>>
       ELSE /\ wire' = [wire EXCEPT ![e] = WriteFrame(e, JSONStringify(DataEnvelope(data)))]
            /\ writeCalls' = [writeCalls EXCEPT ![e] = @ + 2]
            /\ rejections' = [rejections EXCEPT ![e] = @ + Rejected(e, 2)]
            /\ UNCHANGED thrown
    /\ UNCHANGED <<eventTag, open, response, writerState, aborted,
                   closeSSECalls, writerCloseCalls>>
    /\ UNCHANGED clientVars

\* -------------------------------------------------------------- Receiver
\* payload === TERMINATION_PAYLOAD: strict equality of two objects is identity
IsTermination(payload) == payload.ref = TERMINATION_PAYLOAD.ref

\* source.addEventListener(eventTag, ...): only events of that type are dispatched
DispatchesAny(type, tag) == TRUE

Dispatches(type, tag) == type = tag

\* the listener on event.data = text: what it appends to the log, whether it
\* calls source.close(), and whether JSON.parse allocated an object
ListenerCloseOnError(text, ref) ==
    IF ParseThrows(text)
    THEN [entry |-> [ev |-> "error", payload |-> "", status |-> ""],
          close |-> TRUE, alloc |-> 0]
    ELSE IF IsTermination(JSONParse(text, ref))
    THEN [entry |-> [ev |-> "close", payload |-> "", status |-> ""],
          close |-> TRUE, alloc |-> 1]
    ELSE [entry |-> [ev |-> "callback", payload |-> JSONParse(text, ref).payload,
                     status |-> JSONParse(text, ref).status],
          close |-> FALSE, alloc |-> 1]

Listener(text, ref) ==
    IF ParseThrows(text)
    THEN [entry |-> [ev |-> "error", payload |-> "", status |-> ""],
          close |-> FALSE, alloc |-> 0]
    ELSE IF IsTermination(JSONParse(text, ref))
    THEN [entry |-> [ev |-> "close", payload |-> "", status |-> ""],
          close |-> TRUE, alloc |-> 1]
    ELSE [entry |-> [ev |-> "callback", payload |-> JSONParse(text, ref).payload,
                     status |-> JSONParse(text, ref).status],
          close |-> FALSE, alloc |-> 1]

\* the EventSource dispatches an event of the given type with data = text
Dispatch(type, text) ==
    IF Dispatches(type, clientTag)
    THEN /\ clientLog' = Append(clientLog, Listener(text, nextRef).entry)
         /\ sourceClosed' = (sourceClosed \/ Listener(text, nextRef).close)
         /\ nextRef' = nextRef + Listener(text, nextRef).alloc
    ELSE UNCHANGED <<clientLog, sourceClosed, nextRef>>

\* the next frame of the served Emitter reaches the EventSource
Deliver ==
    /\ response[Served]
    /\ ~sourceClosed
    /\ rd + 1 <= Len(wire[Served])
    /\ rd' = rd + 2
    /\ Dispatch(wire[Served][rd].tag, BodyText(wire[Served][rd + 1]))
    /\ UNCHANGED <<clientTag, malformed>>
    /\ UNCHANGED emitterVars

\* bytes that are not JSON reach the EventSource as the body of an event
DeliverMalformed(type) ==
    /\ response[Served]
    /\ ~sourceClosed
    /\ malformed < MaxMalformed
    /\ malformed' = malformed + 1
    /\ Dispatch(type, MalformedText)
    /\ UNCHANGED <<clientTag, rd>>
    /\ UNCHANGED emitterVars

\* ------------------------------------------------------------------ Spec
\* one pairing: the served Emitter and its Receiver
Next ==
    \/ openSSE(Served)
    \/ \E data \in Values : pushData(Served, data)
    \/ closeSSE(Served)
    \/ onabort(Served)
    \/ Deliver
    \/ \E type \in Tags : DeliverMalformed(type)

Spec == Init /\ [][Next]_vars

\* two pairings in one process: every Emitter instance is driven by its own
\* request handler and its own request signal
PairNext ==
    \E e \in Emitters :
        \/ openSSE(e)
        \/ \E data \in PairValues : pushCalls[e] < MaxPairPush /\ pushData(e, data)
        \/ closeSSECalls[e] < MaxPairClose /\ closeSSE(e)
        \/ onabort(e)

PairSpec == Init /\ [][PairNext]_vars

\* ------------------------------------------------------------ properties
TerminationFrame(tag) ==
    <<EventChunk(tag), BodyChunk(JSONStringify(TERMINATION_PAYLOAD))>>

IsTerminationFrameAt(w, i) ==
    /\ i + 1 <= Len(w)
    /\ w[i].kind = "event"
    /\ w[i + 1] = BodyChunk(JSONStringify(TERMINATION_PAYLOAD))

IsDataFrameAt(w, i) ==
    /\ i + 1 <= Len(w)
    /\ w[i].kind = "event"
    /\ w[i + 1].kind = "body"
    /\ w[i + 1].status = "running"

TerminationFrames(w) == Cardinality({i \in 1..Len(w) : IsTerminationFrameAt(w, i)})

IsCallback(entry) == entry.ev = "callback"

Callbacks(log) == SelectSeq(log, IsCallback)

\* the Receiver has read the termination frame of the served Emitter
TerminationDelivered ==
    \E i \in 1..Len(wire[Served]) : i < rd /\ IsTerminationFrameAt(wire[Served], i)

\* data frames carrying the Receiver's tag that it has read
DataFramesDelivered ==
    Cardinality({i \in 1..Len(wire[Served]) :
                   /\ i < rd
                   /\ IsDataFrameAt(wire[Served], i)
                   /\ wire[Served][i].tag = clientTag})

\* C1: once closeSSE has run twice on an Emitter (by call or by the abort
\* callback), its wire holds exactly one termination frame, and a repeated
\* closeSSE lets no exception escape
C1_CloseTwiceOneTerminationFrame ==
    [][ \A e \in Emitters :
          closeSSECalls'[e] >= 2 =>
              /\ TerminationFrames(wire'[e]) = 1
              /\ (closeSSECalls'[e] > closeSSECalls[e]) => (thrown'[e] = thrown[e]) ]_vars

C1_Witness ==
    /\ closeSSECalls[Served] >= 2
    /\ aborted[Served]
    /\ rejections[Served] >= 3
    /\ Len(wire[Served]) >= 4

\* C2: once the termination frame has been read, the callback has run once
\* per data frame read and never with an envelope whose status is "terminate"
C2_TerminationNeverReachesCallback ==
    (TerminationDelivered /\ eventTag[Served] = clientTag) =>
        /\ Len(Callbacks(clientLog)) = DataFramesDelivered
        /\ \A i \in 1..Len(clientLog) :
              IsCallback(clientLog[i]) => clientLog[i].status # "terminate"

\* the listener's log after values vs were pushed and the stream terminated
ExpectedLog(vs) ==
    [i \in 1..(Len(vs) + 1) |->
        IF i <= Len(vs)
        THEN [ev |-> "callback", payload |-> vs[i], status |-> "running"]
        ELSE [ev |-> "close", payload |-> "", status |-> ""]]

\* C3: values that JSON carries unchanged, pushed on an open Emitter before
\* closeSSE, then all read by a Receiver with the same tag: n callbacks with
\* the values in push order, then the subscription is closed
C3_FifoThenClose ==
    ( /\ eventTag[Served] = clientTag
      /\ closeSSECalls[Served] > 0
      /\ rd > Len(wire[Served])
      /\ malformed = 0
      /\ ~earlyPush[Served]
      /\ pushCalls[Served] = Len(pushed[Served])
      /\ \A i \in 1..Len(pushed[Served]) : pushed[Served][i] \in {"v1", "v2"} )
    => clientLog = ExpectedLog(pushed[Served])

\* C4: a Receiver that reads the termination frame framed with its tag
\* closes its subscription in that step
C4_TerminationClosesSubscription ==
    [][ ( /\ rd' # rd
          /\ IsTerminationFrameAt(wire[Served], rd)
          /\ wire[Served][rd].tag = clientTag )
        => sourceClosed' ]_vars

\* C5: the abort callback on an opened Emitter that was never closed appends
\* exactly the termination frame, closes the writer and leaves open = false
C5_AbortCloses ==
    [][ \A e \in Emitters :
          (~aborted[e] /\ aborted'[e] /\ open[e] /\ closeSSECalls[e] = 0) =>
              /\ wire'[e] = wire[e] \o TerminationFrame(eventTag[e])
              /\ TerminationFrames(wire'[e]) = 1
              /\ writerState'[e] = "closed"
              /\ writerCloseCalls'[e] = 1
              /\ ~open'[e] ]_vars

C5_Witness ==
    /\ aborted[Served]
    /\ closeSSECalls[Served] = 1
    /\ response[Served]
    /\ Len(wire[Served]) >= 4
    /\ writerState[Served] = "closed"

\* C6: once closeSSE has run on an Emitter, no step leaves its open flag true
C6_ClosedIsTerminal ==
    [][ \A e \in Emitters : closeSSECalls[e] > 0 => ~open'[e] ]_vars

\* C7: pushData on a closed Emitter issues no write() and leaves the wire as
\* it was
C7_NoWriteAfterClose ==
    [][ \A e \in Emitters :
          (closeSSECalls[e] > 0 /\ pushCalls'[e] > pushCalls[e]) =>
              /\ writeCalls'[e] = writeCalls[e]
              /\ wire'[e] = wire[e] ]_vars

\* C8: RESPONSE_STREAM_WRITER.close() is invoked at most once per Emitter
C8_AtMostOnePhysicalClose ==
    \A e \in Emitters : writerCloseCalls[e] <= 1

\* C9: a Receiver whose tag differs from the served Emitter's never runs its
\* callback and never closes its subscription
C9_TagIsolation ==
    eventTag[Served] # clientTag =>
        /\ ~sourceClosed
        /\ \A i \in 1..Len(clientLog) : clientLog[i].ev = "error"

C9_Witness ==
    /\ eventTag[Served] # clientTag
    /\ Len(wire[Served]) >= 4
    /\ rd > Len(wire[Served])
    /\ TerminationDelivered

\* C10: a malformed body changes neither the callbacks made nor the
\* subscription, and a data frame with the Receiver's tag read in any state
\* appends its callback
C10_MalformedSkipped ==
    [][ /\ (malformed' # malformed) =>
              /\ Callbacks(clientLog') = Callbacks(clientLog)
              /\ sourceClosed' = sourceClosed
              /\ ~sourceClosed'
        /\ ( /\ rd' # rd
             /\ IsDataFrameAt(wire[Served], rd)
             /\ wire[Served][rd].tag = clientTag ) =>
              clientLog' = Append(clientLog,
                                  [ev |-> "callback",
                                   payload |-> wire[Served][rd + 1].payload,
                                   status |-> "running"]) ]_vars

C10_Witness ==
    \E i, j, k \in 1..Len(clientLog) :
        /\ i < j /\ j < k
        /\ clientLog[i].ev = "callback" /\ clientLog[i].status = "running"
        /\ clientLog[j].ev = "error"
        /\ clientLog[k].ev = "callback" /\ clientLog[k].status = "running"

\* C11: pushData on an Emitter on which openSSE has not yet been called
\* writes no frame: it issues no write() and leaves the wire as it was
C11_PushBeforeOpenWritesNothing ==
    [][ \A e \in Emitters :
          (~response[e] /\ pushCalls'[e] > pushCalls[e]) =>
              /\ wire'[e] = wire[e]
              /\ writeCalls'[e] = writeCalls[e] ]_vars

\* C12: while openSSE has not been called on an Emitter, its writer is not
\* closed and its wire holds no termination frame
C12_NoCloseWhileUnopened ==
    \A e \in Emitters :
        ~response[e] =>
            /\ writerState[e] = "writable"
            /\ writerCloseCalls[e] = 0
            /\ TerminationFrames(wire[e]) = 0

\* a wire made of complete frames of one Emitter: the tag chunk of that
\* Emitter at every odd position, a JSON envelope chunk right after it
WellFramed(w, tag) ==
    /\ Len(w) % 2 = 0
    /\ \A i \in 1..Len(w) :
          IF i % 2 = 1
          THEN w[i] = EventChunk(tag)
          ELSE /\ w[i].kind = "body"
               /\ w[i].valid
               /\ w[i].status \in {"running", "terminate"}

\* C13: the chunks accepted by an Emitter's duplex always form complete
\* two-chunk frames, each tag chunk immediately followed by its envelope
C13_WholeFrames ==
    \A e \in Emitters : WellFramed(wire[e], eventTag[e])

C13_Witness ==
    /\ Len(wire[Served]) >= 4
    /\ pushCalls[Served] = MaxPush
    /\ pushCalls[Served] > Len(pushed[Served])
    /\ closeSSECalls[Served] >= 2
    /\ aborted[Served]

\* C14: whenever an Emitter's writer is closed, the last frame on its wire
\* is the termination frame with the Emitter's own tag
C14_ClosedEndsWithTermination ==
    \A e \in Emitters :
        writerState[e] = "closed" =>
            /\ Len(wire[e]) >= 2
            /\ SubSeq(wire[e], Len(wire[e]) - 1, Len(wire[e])) = TerminationFrame(eventTag[e])

C14_Witness ==
    /\ writerState[Served] = "closed"
    /\ Len(wire[Served]) >= 4
    /\ pushCalls[Served] > Len(pushed[Served])
    /\ response[Served]

\* the step ran an operation of Emitter e
OperatedOn(e) ==
    \/ open'[e] # open[e]
    \/ response'[e] # response[e]
    \/ pushCalls'[e] # pushCalls[e]
    \/ closeSSECalls'[e] # closeSSECalls[e]
    \/ aborted'[e] # aborted[e]

\* C15: an operation of one Emitter leaves every other Emitter's open flag,
\* tag, writer state and wire unchanged, and pushData leaves the open flag
\* and the tag of its own Emitter unchanged
C15_PairingsIndependent ==
    [][ \A e \in Emitters :
          /\ OperatedOn(e) =>
                \A o \in Emitters \ {e} :
                    /\ open'[o] = open[o]
                    /\ eventTag'[o] = eventTag[o]
                    /\ writerState'[o] = writerState[o]
                    /\ wire'[o] = wire[o]
          /\ (pushCalls'[e] > pushCalls[e]) =>
                /\ open'[e] = open[e]
                /\ eventTag'[e] = eventTag[e] ]_vars

C15_Witness ==
    \E e, o \in Emitters :
        /\ e # o
        /\ writerState[e] = "closed"
        /\ Len(wire[e]) >= 4
        /\ writerState[o] = "writable"
        /\ open[o]
        /\ Len(wire[o]) = 2
        /\ wire[o][2].status = "running"

====
